---- MODULE Spec2Model ----
(***************************************************************************)
(* ChatHistory of packages/llm/local_llm/chat.py: an ordered list of chat  *)
(* entries, per-entry cached embeddings, and embed_chat, the pass that     *)
(* assembles the embedding of the new part of the chat (use_cache=True) or *)
(* of the whole chat (use_cache=False) together with its token position.   *)
(*                                                                         *)
(* A string is a sequence of tokens (each token a TLA+ string), a tensor   *)
(* of shape [1, n, h] is the sequence of its n positions, and an optional  *)
(* value is a sequence of length 0 (None) or 1.                            *)
(***************************************************************************)
EXTENDS Integers, Sequences, FiniteSets, TLC

\* Most entries the caller adds between two resets (add_entry is disabled
\* beyond it); the system entry that reset adds is not counted.
MaxAdded == 2

None == << >>
Some(x) == << x >>

MESSAGE == "${MESSAGE}"

----------------------------------------------------------------------------
(* Sequence helpers standing for Python's list/str primitives.             *)

RECURSIVE Flatten(_)
Flatten(ss) == IF ss = << >> THEN << >> ELSE Head(ss) \o Flatten(Tail(ss))

\* str.find: 0-based index of the first occurrence, -1 when absent.
RECURSIVE FindFrom(_, _, _)
FindFrom(s, tok, i) ==
    IF i > Len(s) THEN -1
    ELSE IF s[i] = tok THEN i - 1
    ELSE FindFrom(s, tok, i + 1)

Find(s, tok) == FindFrom(s, tok, 1)

\* s[idx:] with Python's meaning of a negative index.
SliceFrom(s, idx) ==
    LET start == IF idx < 0 THEN (IF Len(s) + idx < 0 THEN 0 ELSE Len(s) + idx)
                 ELSE idx
    IN  SubSeq(s, start + 1, Len(s))

\* s.split(tok)[0]: the part before the first occurrence (all of s if none).
SplitHead(s, tok) ==
    IF Find(s, tok) = -1 THEN s ELSE SubSeq(s, 1, Find(s, tok))

\* utils.replace_text(template, {'${MESSAGE}': text})
RECURSIVE replace_text(_, _)
replace_text(template, text) ==
    IF template = << >> THEN << >>
    ELSE (IF Head(template) = MESSAGE THEN text ELSE << Head(template) >>)
         \o replace_text(Tail(template), text)

----------------------------------------------------------------------------
(* The template registry.                                                  *)

ChatTemplates ==
    [ name \in {"llama-2", "vicuna-v1"} |->
        IF name = "llama-2"
        THEN ( "system_prompt" :> << "Answer", "the", "questions." >>
            @@ "system" :> << "<s>[INST] <<SYS>>", MESSAGE, "<</SYS>>" >>
            @@ "first"  :> << MESSAGE, "[/INST]" >>
            @@ "user"   :> << "<s>[INST]", MESSAGE, "[/INST]" >>
            @@ "bot"    :> << " ", MESSAGE >> )
        ELSE ( "system_prompt" :> << "A", "chat" >>
            @@ "system" :> << MESSAGE, "\n\n" >>
            @@ "user"   :> << "USER:", MESSAGE, "\n" >>
            @@ "bot"    :> << "ASSISTANT:", MESSAGE, "</s>\n" >> ) ]

TemplateNames == DOMAIN ChatTemplates

\* System prompts a caller passes to the constructor or the setter.
SystemPrompts == { << "Be", "brief." >> }

\* The template a caller supplies for a role the template set lacks.
SuppliedTemplate == << "TOOL:", MESSAGE >>

----------------------------------------------------------------------------
(* The state of the program.                                               *)

VARIABLES
    template,   \* self.template: key -> string ('system_prompt' and the roles)
    entries,    \* self.entries: the chat entries, in conversation order
    kv_cache,   \* self.kv_cache
    result,     \* what the latest call did and returned
    session,    \* bookkeeping over the calls made since the entries were reset
    book,       \* bookkeeping per entry: how often each segment was returned
    embedding_functions, \* self.embedding_functions: type -> func, uses_template
    objects,    \* several histories: the template-set dicts of the program
    histories,  \* several histories: each history's template reference and entries
    call,       \* embed_dict alone: the arguments of a call and what it gave
    threads     \* concurrent embed_chat calls: each call's locals and position

\* The state of one history and the bookkeeping of its calls.
history == << template, entries, kv_cache, result, session, book >>

\* The state used only when several histories, embed_dict alone, or
\* concurrent calls are studied.
others == << objects, histories, call, threads >>

vars == << template, entries, kv_cache, result, session, book,
           embedding_functions, objects, histories, call, threads >>

----------------------------------------------------------------------------
(* The model collaborator and the embedding functions.                     *)

\* model.embed_text: one position per token of the text.
ModelEmbedText(text) == text

\* model.embed_image: the projected image features.
ModelEmbedImage(image) == << "<feat>", "<feat>" >>

ImageExtensions == {"cat.jpg"}

\* embedding_type for str input: a path ending in an image extension is an image.
embedding_type(input) ==
    IF Len(input) > 0 /\ input[Len(input)] \in ImageExtensions
    THEN "image" ELSE "text"

\* embed_text: `if template:` is false for None and for the empty string.
embed_text(text, role_template) ==
    ModelEmbedText(IF role_template # << >> THEN replace_text(role_template, text) ELSE text)

\* embed_image: [template prefix as text][image features]["\n" as text]
embed_image(image, role_template) ==
    (IF role_template # << >>
        THEN embed_text(SplitHead(role_template, MESSAGE), << >>)
        ELSE << >>)
    \o ModelEmbedImage(image)
    \o embed_text(<< "\n" >>, << >>)

\* What an embedding call gives: the tensor, or the exception it raised.
Embedded(tensor) == [error |-> "", tensor |-> tensor]
Raised(error) == [error |-> error, tensor |-> << >>]

\* An embed_dict that returns the first embedding whatever their number.
DictResult_FirstOnly(embeddings) ==
    IF Len(embeddings) = 0 THEN Raised("ValueError")
    ELSE Embedded(embeddings[1])

\* lines 221-226: nothing to embed raises ValueError, one embedding is
\* returned as it is, several are concatenated along the sequence axis.
DictResult(embeddings) ==
    IF Len(embeddings) = 0 THEN Raised("ValueError")
    ELSE IF Len(embeddings) = 1 THEN Embedded(embeddings[1])
    ELSE Embedded(Flatten(embeddings))

\* The embedding functions: the bound methods that __init__ registers
\* (lines 115-117) and two functions of a caller, each with the number of
\* parameters that inspect.signature reports for it.
Parameters ==
    [embed_text |-> 3, embed_dict |-> 2, embed_image |-> 2,
     embed_audio |-> 2, embed_plain |-> 1]

\* A caller's embedding function of (input, template) for a new type.
embed_audio(input, role_template) == << "<audio>" >>

\* A caller's embedding function of the input alone.
embed_plain(input) == << "<t1>" >> \o input

NoFunctions == [type \in {} |-> << >>]

\* register_embedding(type, func): lines 311-316.
register_embedding(functions, type, func) ==
    (type :> [func |-> func, uses_template |-> Parameters[func] > 1]) @@ functions

\* self.embedding_functions as __init__ leaves it: lines 113-117.
DefaultEmbeddingFunctions ==
    register_embedding(
        register_embedding(
            register_embedding(NoFunctions, "text", "embed_text"),
            "dict", "embed_dict"),
        "image", "embed_image")

\* The types that have an embedding function registered.
EmbeddingFunctions == DOMAIN embedding_functions

\* lines 216-218: the items of a dict that embed_dict embeds.
DictItemEmbeds(key, value) == value # None /\ key \in EmbeddingFunctions

RECURSIVE embed(_, _, _)
RECURSIVE embed_dict(_, _)
RECURSIVE Call(_, _, _)

\* embed_dict: a dict is the sequence of its [key, value] items in stored
\* order; the first item whose embedding raises ends the call.
embed_dict(dict, role_template) ==
    LET items == SelectSeq(dict, LAMBDA kv : DictItemEmbeds(kv.key, kv.value))
        parts == [n \in 1..Len(items) |->
                    embed(items[n].value[1], items[n].key, role_template)]
        failed == { n \in 1..Len(items) : parts[n].error # "" }
    IN  IF failed # {}
        THEN Raised(parts[CHOOSE n \in failed : \A m \in failed : n <= m].error)
        ELSE DictResult([n \in 1..Len(items) |-> parts[n].tensor])

\* func(input, template): the call of a registered function; a function of
\* one parameter is called as func(input), and a method called without a
\* template gets template=None.
Call(func, input, role_template) ==
    IF func = "embed_text" THEN Embedded(embed_text(input, role_template))
    ELSE IF func = "embed_image" THEN Embedded(embed_image(input, role_template))
    ELSE IF func = "embed_dict" THEN embed_dict(input, role_template)
    ELSE IF func = "embed_audio" THEN Embedded(embed_audio(input, role_template))
    ELSE Embedded(embed_plain(input))

\* embed with an explicit type (lines 191-197): an unregistered type raises
\* ValueError; the template is passed on only to a function registered as
\* using it.
embed(input, type, role_template) ==
    IF type \notin EmbeddingFunctions THEN Raised("ValueError")
    ELSE IF embedding_functions[type].uses_template
         THEN Call(embedding_functions[type].func, input, role_template)
         ELSE Call(embedding_functions[type].func, input, << >>)

----------------------------------------------------------------------------
(* Chat entries.                                                           *)

\* The value of a variable that a specification does not use.
Unused == << >>

NoCache == [k \in {} |-> << >>]

\* kwargs: a sequence of [key, value] in the order the caller wrote them.
KwKeys(kwargs) == [n \in 1..Len(kwargs) |-> kwargs[n].key]
KwVal(kwargs) ==
    [k \in {kwargs[n].key : n \in 1..Len(kwargs)} |->
        kwargs[CHOOSE n \in 1..Len(kwargs) : kwargs[n].key = k].value]

\* create_entry: AttrDict(role=role, **kwargs), then entry[type(input)] = input.
\* keys is the dict's key order without 'role'; cache holds the
\* '<key>_embedding' items.
create_entry(role, input, kwargs) ==
    IF input = None
    THEN [role |-> role, keys |-> KwKeys(kwargs), val |-> KwVal(kwargs),
          cache |-> NoCache]
    ELSE LET type == embedding_type(input[1])
         IN  [role |-> role,
              keys |-> IF type \in DOMAIN KwVal(kwargs) THEN KwKeys(kwargs)
                       ELSE Append(KwKeys(kwargs), type),
              val  |-> (type :> input) @@ KwVal(kwargs),
              cache |-> NoCache]

\* What the callers of add_entry pass: (role, input, **kwargs).
AddInputs ==
    { [role |-> "user", input |-> Some(<< "hello" >>), kwargs |-> << >>],
      [role |-> "user", input |-> Some(<< "hello" >>),
            kwargs |-> << [key |-> "image", value |-> Some(<< "cat.jpg" >>)] >>],
      [role |-> "user", input |-> Some(<< "cat.jpg" >>),
            kwargs |-> << [key |-> "text", value |-> Some(<< "hello" >>)] >>],
      [role |-> "bot", input |-> Some(<< "hi", "there" >>),
            kwargs |-> << [key |-> "image", value |-> None] >>],
      [role |-> "tool", input |-> Some(<< "42" >>), kwargs |-> << >>],
      [role |-> "user", input |-> None,
            kwargs |-> << [key |-> "audio", value |-> Some(<< "beep.wav" >>)] >>] }

----------------------------------------------------------------------------
(* embed_chat.                                                             *)

\* A pass that picks `first` without looking at the role.
UsesFirstTemplate_AnyRole(tpl, role, num_user_prompts) ==
    "first" \in DOMAIN tpl /\ num_user_prompts = 0

\* line 272: the `first` template replaces the role's template.
UsesFirstTemplate(tpl, role, num_user_prompts) ==
    "first" \in DOMAIN tpl /\ role = "user" /\ num_user_prompts = 0

\* line 290: a freshly embedded segment is returned unless it is the bot's.
EmitsFresh(role) == role # "bot"

\* A pass that counts every content item of a user entry as a user prompt.
CountsUserPrompt_AnyKey(role, key) == role = "user"

\* line 306: what counts as a user prompt.
CountsUserPrompt(role, key) == role = "user" /\ key = "text"

\* A pass that takes an embedding for cached only on a bot entry.
IsCached_BotOnly(entry, key) ==
    key \in DOMAIN entry.cache /\ entry.role = "bot"

\* A pass that takes an embedding for cached only on the system entry.
IsCached_SystemOnly(entry, key) ==
    key \in DOMAIN entry.cache /\ entry.role = "system"

\* A pass that never finds an embedding on the entry.
IsCached_Never(entry, key) == FALSE

\* lines 288 and 300: `embed_key not in entry`, negated.
IsCached(entry, key) == key \in DOMAIN entry.cache

\* A pass that leaves the bot's cached segments out of the position.
CountsHit_NotBot(role) == role # "bot"

\* lines 297-298: a cache hit adds to the position whatever the role.
CountsHit(role) == TRUE

\* A pass that keeps use_cache once a segment was returned.
StillCacheable_Sticky(use_cache, emitted) == use_cache

\* line 292: use_cache = False once a segment is returned.
StillCacheable(use_cache, emitted) == use_cache /\ ~emitted

\* A pass that also puts the embedding in place of the raw content.
StoreEmbedding_OverContent(entry, key, embedding) ==
    [entry EXCEPT !.cache = (key :> embedding) @@ @,
                  !.val = (key :> Some(embedding)) @@ @]

\* lines 289 and 301: entry[embed_key] = self.embed(...)
StoreEmbedding(entry, key, embedding) ==
    [entry EXCEPT !.cache = (key :> embedding) @@ @]

\* A pass that assigns the length where the code accumulates it.
AdvancePosition_Assigned(position, embedding) == Len(embedding)

\* lines 298 and 296: position += entry[embed_key].shape[1]
AdvancePosition(position, embedding) == position + Len(embedding)

\* lines 272-276: the role's template is needed and is not there.
LacksRoleTemplate(tpl, role, num_user_prompts) ==
    ~UsesFirstTemplate(tpl, role, num_user_prompts) /\ role \notin DOMAIN tpl

\* lines 272-280: the template the body picks for a segment of entry i, and
\* open_user_prompt as that leaves it.
RoleTemplate(st, tpl, i) ==
    LET entry == st.entries[i]
        first == UsesFirstTemplate(tpl, entry.role, st.num_user_prompts)
    IN  [first |-> first,
         truncated |-> ~first /\ st.open_user_prompt,
         template |->
            IF first THEN tpl["first"]
            ELSE IF st.open_user_prompt
                 THEN SliceFrom(tpl[entry.role], Find(tpl[entry.role], MESSAGE))
                 ELSE tpl[entry.role],
         open_user_prompt |-> IF first THEN st.open_user_prompt ELSE FALSE]

\* lines 289 and 301: entry[embed_key] = self.embed(entry[key], type=key,
\* template=role_template); nothing is stored when self.embed raises.
StoreSegment(st, tpl, i, key) ==
    LET entry == st.entries[i]
        computed == embed(entry.val[key][1], key, RoleTemplate(st, tpl, i).template)
    IN  IF computed.error # ""
        THEN [st EXCEPT !.error = computed.error,
                        !.open_user_prompt = RoleTemplate(st, tpl, i).open_user_prompt]
        ELSE [st EXCEPT !.entries[i] = StoreEmbedding(entry, key, computed.tensor)]

\* The rest of the body (lines 290-296, 298 or 302-304, and 306-307): it
\* reads entry[embed_key] from the entry; cached tells what the test of line
\* 288 or 300 had found.
FinishSegment(st, tpl, i, key, cached) ==
    LET entry == st.entries[i]
        chosen == RoleTemplate(st, tpl, i)
        embedding == entry.cache[key]
        emitted == IF st.use_cache THEN ~cached /\ EmitsFresh(entry.role) ELSE TRUE
        counted == st.use_cache /\ ~emitted /\ (cached => CountsHit(entry.role))
        item == [e |-> i, key |-> key, role |-> entry.role,
                 tmpl |-> IF chosen.first THEN "first" ELSE entry.role,
                 truncated |-> chosen.truncated, fresh |-> ~cached,
                 emitted |-> emitted, counted |-> counted]
    IN  [st EXCEPT
           !.embeddings = IF emitted THEN Append(@, embedding) ELSE @,
           !.position = IF counted THEN AdvancePosition(@, embedding) ELSE @,
           !.use_cache = StillCacheable(@, emitted),
           !.open_user_prompt = IF ~cached /\ emitted /\ key = "image"
                                THEN TRUE ELSE chosen.open_user_prompt,
           !.num_user_prompts = IF CountsUserPrompt(entry.role, key)
                                THEN @ + 1 ELSE @,
           !.walk = Append(@, item)]

\* The body of the inner loop (lines 269-307) for entry i and one of its
\* keys, given what the test `embed_key not in entry` of line 288 or 300
\* found (cached: the key was there).  st is the pass's local state plus the
\* entries it mutates in place.
ProcessSegment(st, tpl, i, key, cached) ==
    IF key \notin EmbeddingFunctions \/ st.entries[i].val[key] = None
    THEN st                                                   \* continue
    ELSE IF LacksRoleTemplate(tpl, st.entries[i].role, st.num_user_prompts)
    THEN \* the raise of line 276 reads self.template_name, which is never set
         [st EXCEPT !.error = "AttributeError"]
    ELSE IF cached THEN FinishSegment(st, tpl, i, key, TRUE)
    ELSE LET stored == StoreSegment(st, tpl, i, key)
         IN  IF stored.error # "" THEN stored
             ELSE FinishSegment(stored, tpl, i, key, FALSE)

\* The body of the inner loop when nothing else runs between the test of
\* line 288 or 300 and the rest of the body.
EmbedSegment(st, tpl, i, key) ==
    ProcessSegment(st, tpl, i, key, IsCached(st.entries[i], key))

\* The two loops of lines 267-268; an exception ends the pass.
RECURSIVE Walk(_, _, _, _)
Walk(st, tpl, i, j) ==
    IF st.error # "" \/ i > Len(st.entries) THEN st
    ELSE IF j > Len(st.entries[i].keys) THEN Walk(st, tpl, i + 1, 1)
    ELSE Walk(EmbedSegment(st, tpl, i, st.entries[i].keys[j]), tpl, i, j + 1)

\* embed_chat(use_cache): the entries as the pass leaves them and what the
\* call returns; np.concatenate raises ValueError on an empty list.
embed_chat(ents, tpl, use_cache) ==
    LET st == Walk([entries |-> ents, embeddings |-> << >>, position |-> 0,
                    num_user_prompts |-> 0, open_user_prompt |-> FALSE,
                    use_cache |-> use_cache, error |-> "", walk |-> << >>],
                   tpl, 1, 1)
        error == IF st.error # "" THEN st.error
                 ELSE IF st.embeddings = << >> THEN "ValueError" ELSE ""
    IN  [entries |-> st.entries,
         ok |-> error = "",
         error |-> error,
         tensor |-> IF error = "" THEN Flatten(st.embeddings) ELSE << >>,
         position |-> IF error = "" THEN st.position ELSE -1,
         computed |-> st.position,
         walk |-> st.walk]

----------------------------------------------------------------------------
(* Bookkeeping and the operations of the history.                          *)

\* The session bookkeeping: pure, only add_entry and successful
\* embed_chat(True) since the reset; failed, an embed_chat call raised in the
\* middle of its pass since the reset; last_true, the position the latest
\* successful embed_chat(True) returned since the reset (-1: none);
\* registered, register_embedding was called since the reset.
NewSession ==
    [pure |-> TRUE, failed |-> FALSE, last_true |-> -1, registered |-> FALSE]

\* The record of a call that returns no tensor.
NoResult(op) ==
    [op |-> op, use_cache |-> FALSE, ok |-> TRUE, error |-> "",
     tensor |-> << >>, position |-> -1, computed |-> -1, walk |-> << >>,
     prev |-> "", before |-> NewSession, arg |-> None]

\* In a result, prev names the call made just before when that was a
\* successful embed_chat(True), the system_prompt setter or reset(True), and
\* before is the session bookkeeping as the call found it.

\* ret: how many successful calls returned the segment: 0, 1, and 2 for a
\* segment that an embed_chat(True) of a pure session returned again;
\* seen: a successful embed_chat(True) ran since the entry was added.
NewBook(entry) == [ret |-> [k \in DOMAIN entry.val |-> 0], seen |-> FALSE]

\* A reset that tests add_system_prompt the wrong way round.
ResetEntries_Inverted(tpl, add_system_prompt) ==
    IF ~add_system_prompt
    THEN << create_entry("system", None,
                << [key |-> "text", value |-> Some(tpl["system_prompt"])] >>) >>
    ELSE << >>

\* reset: self.entries = [], then the system entry if asked for.
ResetEntries(tpl, add_system_prompt) ==
    IF add_system_prompt
    THEN << create_entry("system", None,
                << [key |-> "text", value |-> Some(tpl["system_prompt"])] >>) >>
    ELSE << >>

\* __init__: a copy of the registered template, the system prompt
\* overridden when one is given, then reset().
Init ==
    /\ \E name \in TemplateNames, system_prompt \in {None} \cup {Some(p) : p \in SystemPrompts} :
          template = IF system_prompt # None
                     THEN [ChatTemplates[name] EXCEPT !["system_prompt"] = system_prompt[1]]
                     ELSE ChatTemplates[name]
    /\ entries = ResetEntries(template, TRUE)
    /\ kv_cache = None
    /\ result = NoResult("init")
    /\ session = NewSession
    /\ book = [i \in 1..Len(entries) |-> NewBook(entries[i])]
    /\ embedding_functions = DefaultEmbeddingFunctions
    /\ objects = Unused /\ histories = Unused /\ call = Unused /\ threads = Unused

\* The entries add_entry appended since the reset.
Added(ents) == Cardinality({i \in 1..Len(ents) : ents[i].role # "system"})

\* add_entry(role, input, **kwargs)
AddEntry(in) ==
    /\ Added(entries) < MaxAdded
    /\ entries' = Append(entries, create_entry(in.role, in.input, in.kwargs))
    /\ book' = Append(book, NewBook(entries'[Len(entries')]))
    /\ result' = NoResult("add_entry")
    /\ UNCHANGED << template, kv_cache, session >>
    /\ UNCHANGED << embedding_functions, others >>

\* reset(add_system_prompt)
Reset(add_system_prompt) ==
    /\ entries' = ResetEntries(template, add_system_prompt)
    /\ kv_cache' = None
    /\ book' = [i \in 1..Len(entries') |-> NewBook(entries'[i])]
    /\ session' = NewSession
    /\ result' = NoResult(IF add_system_prompt THEN "reset(True)" ELSE "reset(False)")
    /\ UNCHANGED template
    /\ UNCHANGED << embedding_functions, others >>

\* system_prompt.setter
SetSystemPrompt(instruction) ==
    /\ template' = [template EXCEPT !["system_prompt"] = instruction]
    /\ entries' = ResetEntries(template', TRUE)
    /\ kv_cache' = None
    /\ book' = [i \in 1..Len(entries') |-> NewBook(entries'[i])]
    /\ session' = NewSession
    /\ result' = [NoResult("system_prompt") EXCEPT !.arg = Some(instruction)]
    /\ UNCHANGED << embedding_functions, others >>

\* The caller adds the template of a role the template set lacks
\* (history.template[role] = ...) once a pass has raised for want of it.
SupplyTemplate(role) ==
    /\ role \notin DOMAIN template
    /\ session.failed
    /\ template' = (role :> SuppliedTemplate) @@ template
    /\ result' = NoResult("supply_template")
    /\ UNCHANGED << entries, kv_cache, session, book >>
    /\ UNCHANGED << embedding_functions, others >>

\* What a caller registers: a function for a new type, and a function of
\* one parameter in place of the text method.
Registrations ==
    { [type |-> "audio", func |-> "embed_audio"],
      [type |-> "text",  func |-> "embed_plain"] }

\* register_embedding(type, func)
RegisterEmbedding(type, func) ==
    /\ embedding_functions' = register_embedding(embedding_functions, type, func)
    /\ session' = [session EXCEPT !.pure = FALSE, !.registered = TRUE]
    /\ result' = NoResult("register_embedding")
    /\ UNCHANGED << template, entries, kv_cache, book >>
    /\ UNCHANGED others

Returned(r, i, k) ==
    r.ok /\ \E n \in 1..Len(r.walk) :
                r.walk[n].e = i /\ r.walk[n].key = k /\ r.walk[n].emitted

\* embed_chat(use_cache)
EmbedChat(use_cache) ==
    \E r \in {embed_chat(entries, template, use_cache)} :
    /\ entries' = r.entries
    /\ result' = [op |-> "embed_chat", use_cache |-> use_cache, ok |-> r.ok,
                  error |-> r.error, tensor |-> r.tensor,
                  position |-> r.position, computed |-> r.computed,
                  walk |-> r.walk,
                  prev |-> IF result.op = "embed_chat"
                           THEN (IF result.ok /\ result.use_cache
                                 THEN "embed_chat(True)" ELSE "")
                           ELSE IF result.op \in {"system_prompt", "reset(True)"}
                           THEN result.op ELSE "",
                  before |-> session, arg |-> None]
    /\ session' = [pure |-> session.pure /\ r.ok /\ use_cache,
                   failed |-> session.failed \/ r.error = "AttributeError",
                   last_true |-> IF r.ok /\ use_cache THEN r.position
                                 ELSE session.last_true,
                   registered |-> session.registered]
    /\ book' = [i \in 1..Len(entries) |->
                  [ret |-> [k \in DOMAIN book[i].ret |->
                              IF ~Returned(r, i, k) THEN book[i].ret[k]
                              ELSE IF book[i].ret[k] = 0 THEN 1
                              ELSE IF session.pure /\ use_cache THEN 2
                              ELSE book[i].ret[k]],
                   seen |-> book[i].seen \/ (r.ok /\ use_cache)]]
    /\ UNCHANGED << template, kv_cache >>
    /\ UNCHANGED << embedding_functions, others >>

Next ==
    \/ \E in \in AddInputs : AddEntry(in)
    \/ \E use_cache \in BOOLEAN : EmbedChat(use_cache)
    \/ \E add_system_prompt \in BOOLEAN : Reset(add_system_prompt)
    \/ \E instruction \in SystemPrompts : SetSystemPrompt(instruction)
    \/ SupplyTemplate("tool")
    \/ \E reg \in Registrations : RegisterEmbedding(reg.type, reg.func)

Spec == Init /\ [][Next]_vars

----------------------------------------------------------------------------
(* Vocabulary of the properties.                                           *)

\* (i, k) is a segment: a content item that embed_chat embeds.
IsSegment(ents, i, k) ==
    /\ i \in 1..Len(ents)
    /\ k \in DOMAIN ents[i].val
    /\ k \in EmbeddingFunctions
    /\ ents[i].val[k] # None

AllCached(ents) ==
    \A i \in 1..Len(ents) : \A k \in DOMAIN ents[i].val :
        IsSegment(ents, i, k) => k \in DOMAIN ents[i].cache

\* The stored embeddings of all segments, in entry order then key order.
EntryTensor(ents, i) ==
    Flatten([j \in 1..Len(ents[i].keys) |->
                IF IsSegment(ents, i, ents[i].keys[j])
                THEN ents[i].cache[ents[i].keys[j]] ELSE << >>])

HistoryTensor(ents) == Flatten([i \in 1..Len(ents) |-> EntryTensor(ents, i)])

\* The entries as add_entry left them, without cached embeddings.
Uncached(ents) == [i \in 1..Len(ents) |-> [ents[i] EXCEPT !.cache = NoCache]]

\* Every segment's role has a template (the pass cannot raise at line 276).
RolesTemplated(ents, tpl) ==
    \A i \in 1..Len(ents) : \A k \in DOMAIN ents[i].val :
        IsSegment(ents, i, k) => ents[i].role \in DOMAIN tpl

Called(use_cache) == result.op = "embed_chat" /\ result.use_cache = use_cache

\* What the function registered for a type gives for a value and the
\* template t; a function that takes no template is given none.
Dispatched(type, value, t) ==
    LET fn == embedding_functions[type]
    IN  IF fn.func = "embed_text" THEN embed_text(value, t)
        ELSE IF fn.func = "embed_image" THEN embed_image(value, t)
        ELSE IF fn.func = "embed_audio" THEN embed_audio(value, t)
        ELSE embed_plain(value)

\* What a text function registered at some time gives for a text and the
\* template t: the method's embedding, or the caller's function's.
TextEmbeddings(text, t) == { embed_text(text, t), embed_plain(text) }

----------------------------------------------------------------------------
(* Properties.                                                             *)

\* C1: while every call since the reset was add_entry or a successful
\* embed_chat(True), every segment that is not the bot's has been returned
\* by exactly one call, the first successful embed_chat(True) made after
\* its entry was added (none before such a call); no segment, the bot's
\* included, has been returned by two calls; and a segment that the latest
\* call only counted in the position was returned by an earlier one.
C1_ReturnedExactlyOnce ==
    session.pure =>
        /\ \A i \in 1..Len(entries) : \A k \in DOMAIN entries[i].val :
              (IsSegment(entries, i, k) /\ entries[i].role # "bot") =>
                  book[i].ret[k] = (IF book[i].seen THEN 1 ELSE 0)
        /\ \A i \in 1..Len(entries) : \A k \in DOMAIN entries[i].val :
              IsSegment(entries, i, k) => book[i].ret[k] <= 1
        /\ Called(TRUE) =>
              \A n \in 1..Len(result.walk) :
                  (result.walk[n].counted /\ result.walk[n].role # "bot") =>
                      /\ ~result.walk[n].emitted
                      /\ book[result.walk[n].e].ret[result.walk[n].key] = 1

\* C1 witness: a second successful embed_chat(True) that counts an earlier
\* user segment in the position and returns a new one.
C1_Witness ==
    /\ session.pure /\ Called(TRUE) /\ result.ok
    /\ result.before.last_true >= 0
    /\ \E n, m \in 1..Len(result.walk) :
          /\ result.walk[n].counted /\ result.walk[n].role = "user"
          /\ result.walk[m].emitted /\ result.walk[m].role = "user"
          /\ book[result.walk[n].e].ret[result.walk[n].key] = 1
          /\ book[result.walk[m].e].ret[result.walk[m].key] = 1

\* C2 (as claimed): an embed_chat(True) that directly follows a successful
\* embed_chat(True), no entry added in between, succeeds and returns an
\* empty tensor.
C2_SecondCallReturnsEmpty ==
    (Called(TRUE) /\ result.prev = "embed_chat(True)") =>
        /\ result.ok
        /\ result.tensor = << >>


\* C3 (as claimed): after add_entry calls interleaved with successful
\* embed_chat(True) calls, embed_chat(False) returns a tensor as long as the
\* one embed_chat(False) returns on a fresh history holding the same entries,
\* and fails only if that one fails.
C3_FullRecomputeEquivalence ==
    (Called(FALSE) /\ result.before.pure) =>
        LET fresh == embed_chat(Uncached(entries), template, FALSE)
        IN  /\ result.ok = fresh.ok
            /\ Len(result.tensor) = Len(fresh.tensor)

\* C4 (as claimed): embed_chat(False), on any history whose roles all have a
\* template, returns position 0 and the embeddings of all segments, each
\* once, in entry order then key order, and leaves every segment cached.
C4_FullPassReturnsEverything ==
    (Called(FALSE) /\ RolesTemplated(entries, template)) =>
        /\ result.ok
        /\ result.position = 0
        /\ AllCached(entries)
        /\ result.tensor = HistoryTensor(entries)

\* C5 (as claimed): a successful embed_chat call never returns a position
\* below the one an earlier call returned since the latest reset.
C5_NeverDecreases ==
    (result.op = "embed_chat" /\ result.ok /\ result.before.last_true >= 0) =>
        result.position >= result.before.last_true

\* C5 (amended): over add_entry, embed_chat and reset calls, a successful
\* embed_chat(True) never returns a position below the one an earlier
\* successful embed_chat(True) returned since the latest reset; a
\* successful embed_chat(False) returns 0; and a successful call that finds
\* the system entry of the latest reset not yet embedded (the first call
\* after that reset) returns 0.
C5_CachedPassesNeverDecrease ==
    (result.op = "embed_chat" /\ result.ok) =>
        /\ ( /\ result.use_cache /\ result.before.last_true >= 0
              /\ ~result.before.registered ) =>
              result.position >= result.before.last_true
        /\ ~result.use_cache => result.position = 0
        /\ (result.walk[1].role = "system" /\ result.walk[1].fresh) =>
              result.position = 0

\* C5 witness: a successful embed_chat(True) returns a larger position than
\* the successful embed_chat(True) before it.
C5_Witness ==
    /\ Called(TRUE) /\ result.ok
    /\ result.before.last_true > 0
    /\ result.position > result.before.last_true


\* C6 (as claimed): after an embed_chat call raised in the middle of its
\* pass, a later successful embed_chat(True) counts in the position only
\* segments that a successful call returned before (or the bot's), so
\* every other segment is in its tensor.
C6_RetryReturnsTheUnreturned ==
    (Called(TRUE) /\ result.ok /\ result.before.failed) =>
        \A n \in 1..Len(result.walk) :
            (result.walk[n].counted /\ result.walk[n].role # "bot") =>
                book[result.walk[n].e].ret[result.walk[n].key] >= 1

\* The system entry that reset adds for the prompt x.
SystemEntry(x) ==
    [role |-> "system", keys |-> << "text" >>, val |-> [text |-> Some(x)],
     cache |-> NoCache]

\* C7: right after the system prompt is set to x the entries are one
\* uncached system entry with text x; right after reset(True) they are one
\* uncached system entry with the current prompt, after reset(False) none;
\* and an embed_chat(True) that follows directly succeeds with position 0
\* and the embedding of that system entry.
C7_SystemPromptResets ==
    /\ result.op = "system_prompt" =>
          /\ template["system_prompt"] = result.arg[1]
          /\ entries = << SystemEntry(result.arg[1]) >>
    /\ result.op = "reset(True)" =>
          entries = << SystemEntry(template["system_prompt"]) >>
    /\ result.op = "reset(False)" => entries = << >>
    /\ (Called(TRUE) /\ result.prev \in {"system_prompt", "reset(True)"}) =>
          /\ result.ok
          /\ result.position = 0
          /\ Len(entries) = 1
          /\ result.tensor =
                Dispatched("text", template["system_prompt"], template["system"])

\* C7 witness: embed_chat(True) right after the prompt was set to a value
\* that differs from the registered one.
C7_Witness ==
    /\ Called(TRUE) /\ result.ok
    /\ result.prev = "system_prompt"
    /\ template["system_prompt"] \in SystemPrompts
    /\ \A name \in TemplateNames :
          template["system_prompt"] # ChatTemplates[name]["system_prompt"]
    /\ result.tensor # << >>

IsUserText(ents, i) == ents[i].role = "user" /\ IsSegment(ents, i, "text")

\* The earliest user text segment of the history.
EarliestUserText(ents, i) ==
    IsUserText(ents, i) /\ \A i2 \in 1..(i - 1) : ~IsUserText(ents, i2)

\* C8: with a `first` template that differs from `user`, every pass picks
\* `first` for the earliest user text segment and `user` for every later
\* user text segment, cached or not, and the stored embedding of a user text
\* is what a registered text function gives for the text and the template so
\* picked (whole, or for `user` cut at the placeholder after an image).
C8_FirstTurnOverride ==
    ("first" \in DOMAIN template /\ template["first"] # template["user"]) =>
        /\ result.op = "embed_chat" =>
              \A n \in 1..Len(result.walk) :
                  (result.walk[n].role = "user" /\ result.walk[n].key = "text") =>
                      result.walk[n].tmpl =
                          (IF EarliestUserText(entries, result.walk[n].e)
                           THEN "first" ELSE "user")
        /\ \A i \in 1..Len(entries) :
              (IsUserText(entries, i) /\ "text" \in DOMAIN entries[i].cache) =>
                  LET text == entries[i].val["text"][1]
                      user == template["user"]
                  IN  IF EarliestUserText(entries, i)
                      THEN entries[i].cache["text"] \in
                              TextEmbeddings(text, template["first"])
                      ELSE entries[i].cache["text"] \in
                              TextEmbeddings(text, user)
                              \cup TextEmbeddings(text,
                                        SliceFrom(user, Find(user, MESSAGE)))

\* C8 witness: a pass that finds the first user text cached and picks
\* `first` for it, and embeds a second user text with `user`.
C8_Witness ==
    /\ "first" \in DOMAIN template /\ template["first"] # template["user"]
    /\ Called(TRUE) /\ result.ok
    /\ \E n, m \in 1..Len(result.walk) :
          /\ result.walk[n].key = "text" /\ result.walk[n].tmpl = "first"
          /\ ~result.walk[n].fresh
          /\ result.walk[m].key = "text" /\ result.walk[m].tmpl = "user"
          /\ result.walk[m].role = "user" /\ result.walk[m].fresh
          /\ entries[result.walk[m].e].cache["text"] =
                embed_text(entries[result.walk[m].e].val["text"][1], template["user"])

\* C9 (as claimed; template sets without `first`): a user entry with image
\* and text, once embedded, reads [user template up to the placeholder]
\* [image features and newline][user template from the placeholder on, with
\* the message], the prefix once.
C9_ImageSplitsUserTemplate ==
    \A i \in 1..Len(entries) :
        ( /\ "first" \notin DOMAIN template
          /\ entries[i].role = "user"
          /\ IsSegment(entries, i, "image") /\ IsSegment(entries, i, "text")
          /\ {"image", "text"} \subseteq DOMAIN entries[i].cache ) =>
            LET user == template["user"]
            IN  EntryTensor(entries, i) =
                    embed_text(SplitHead(user, MESSAGE), << >>)
                    \o ModelEmbedImage(entries[i].val["image"][1])
                    \o embed_text(<< "\n" >>, << >>)
                    \o embed_text(entries[i].val["text"][1],
                                  SliceFrom(user, Find(user, MESSAGE)))

\* C10 (as claimed): when all earlier segments are cached and were returned,
\* and the last entry is a bot entry not yet embedded, embed_chat(True)
\* succeeds with an empty tensor and a position equal to the length of the
\* earlier segments plus the bot segment's.
C10_BotTurnAdvancesPosition ==
    ( /\ Called(TRUE)
      /\ Len(entries) >= 2
      /\ entries[Len(entries)].role = "bot"
      /\ result.error # "AttributeError"
      /\ \A n \in 1..Len(result.walk) :
            IF result.walk[n].e = Len(entries)
            THEN result.walk[n].fresh
            ELSE /\ ~result.walk[n].fresh
                 /\ result.walk[n].role # "bot" =>
                       book[result.walk[n].e].ret[result.walk[n].key] >= 1 ) =>
        /\ result.ok
        /\ result.tensor = << >>
        /\ result.position = Len(HistoryTensor(entries))

\* The calls that empty the entries: reset and the system_prompt setter.
Resetting(op) == op \in {"reset(True)", "reset(False)", "system_prompt"}

\* C11: a step that is not a reset keeps every cached embedding as it is, and
\* an embed_chat call, in either mode and whether it succeeds or raises,
\* computes an embedding only for a segment that had none when it started.
C11_CachedWrittenOnce ==
    [][ /\ ~Resetting(result'.op) =>
              \A i \in 1..Len(entries) :
                  /\ i <= Len(entries')
                  /\ \A k \in DOMAIN entries[i].cache :
                        /\ k \in DOMAIN entries'[i].cache
                        /\ entries'[i].cache[k] = entries[i].cache[k]
        /\ result'.op = "embed_chat" =>
              \A n \in 1..Len(result'.walk) :
                  result'.walk[n].fresh =>
                      result'.walk[n].key \notin
                          DOMAIN entries[result'.walk[n].e].cache
      ]_vars

\* C11 witness: an embed_chat(False) found one segment embedded, returned it
\* as stored, and embedded another; and a call raised earlier in the session.
C11_Witness ==
    /\ Called(FALSE) /\ result.ok
    /\ result.before.failed
    /\ \E n, m \in 1..Len(result.walk) :
          /\ ~result.walk[n].fresh /\ result.walk[n].emitted
          /\ result.walk[n].key \in DOMAIN entries[result.walk[n].e].cache
          /\ result.walk[m].fresh

----------------------------------------------------------------------------
(* Several histories and the template-set dicts they hold.  A dict is an   *)
(* object: self.template is a reference to it, and an assignment to        *)
(* template['system_prompt'] is seen through every reference.              *)

HistoryIds == {"a", "b"}

\* The dict a caller built to pass as `template` (here with the vicuna-v1 strings).
CallerObject == "caller"

\* The dict that ChatTemplates[name].copy() makes for history h.
CopyObject(h) == [a |-> "copy of a", b |-> "copy of b"][h]

\* What a caller passes as `template`: a registered name, or a dict (one of
\* the registry's own, or the caller's).
TemplateArgs ==
    { [name |-> n] : n \in TemplateNames }
    \cup { [object |-> o] : o \in TemplateNames \cup {CallerObject} }

NotBuilt == [built |-> FALSE]

\* Module load (lines 9-45) and a history yet to be constructed.
InitShared ==
    /\ objects = [o \in TemplateNames \cup {CallerObject} |->
                    IF o = CallerObject THEN ChatTemplates["vicuna-v1"]
                    ELSE ChatTemplates[o]]
    /\ histories = [h \in HistoryIds |-> NotBuilt]
    /\ call = Unused /\ threads = Unused
    /\ embedding_functions = DefaultEmbeddingFunctions
    /\ template = Unused /\ entries = << >> /\ kv_cache = None
    /\ result = NoResult("init") /\ session = NewSession /\ book = << >>

\* The dicts after `self.template = ...` for the argument arg (lines 105-108)
\* and the reference the history keeps.
TemplateRef(h, arg) ==
    IF "name" \in DOMAIN arg THEN CopyObject(h) ELSE arg.object

WithTemplate(objs, h, arg) ==
    IF "name" \in DOMAIN arg
    THEN (CopyObject(h) :> objs[arg.name]) @@ objs
    ELSE objs

\* template['system_prompt'] = value, through the reference ref.
WithSystemPrompt(objs, ref, value) ==
    [objs EXCEPT ![ref]["system_prompt"] = value]

\* ChatHistory(model, template, system_prompt): lines 105-119.
\* own is bookkeeping: the system prompt this history was built with or was
\* last given through its own setter.
Construct(h, arg, system_prompt) ==
    LET ref  == TemplateRef(h, arg)
        objs == WithTemplate(objects, h, arg)
        set  == IF system_prompt # None
                THEN WithSystemPrompt(objs, ref, system_prompt[1]) ELSE objs
    IN  /\ ~histories[h].built
        /\ objects' = set
        /\ histories' = [histories EXCEPT ![h] =
              [built |-> TRUE, template |-> ref,
               entries |-> ResetEntries(set[ref], TRUE),
               own |-> set[ref]["system_prompt"]]]
        /\ UNCHANGED << history, embedding_functions, call, threads >>

\* history.system_prompt = instruction: lines 172-179.
OverrideSystemPrompt(h, instruction) ==
    LET ref == histories[h].template
        set == WithSystemPrompt(objects, ref, instruction)
    IN  /\ histories[h].built
        /\ objects' = set
        /\ histories' = [histories EXCEPT
              ![h].entries = ResetEntries(set[ref], TRUE),
              ![h].own = instruction]
        /\ UNCHANGED << history, embedding_functions, call, threads >>

\* history.reset(): lines 155-162, reading the prompt through the reference.
ResetHistory(h) ==
    /\ histories[h].built
    /\ histories' = [histories EXCEPT
          ![h].entries = ResetEntries(objects[histories[h].template], TRUE)]
    /\ UNCHANGED << objects, history, embedding_functions, call, threads >>

NextShared ==
    \/ \E h \in HistoryIds, arg \in TemplateArgs,
          system_prompt \in {None} \cup {Some(p) : p \in SystemPrompts} :
            Construct(h, arg, system_prompt)
    \/ \E h \in HistoryIds, instruction \in SystemPrompts :
            OverrideSystemPrompt(h, instruction)
    \/ \E h \in HistoryIds : ResetHistory(h)

SpecShared == InitShared /\ [][NextShared]_vars

\* history.system_prompt: lines 164-170.
system_prompt(h) == objects[histories[h].template]["system_prompt"]

\* C12 (as claimed): whatever prompts the histories were built with or
\* given, the registry's template sets are as registered, and every history
\* reads as its system prompt the one it was built with or last given
\* itself, also when histories were given the same dict.
C12_OverrideIsPrivate ==
    /\ \A name \in TemplateNames : objects[name] = ChatTemplates[name]
    /\ \A h \in HistoryIds :
          histories[h].built => system_prompt(h) = histories[h].own

----------------------------------------------------------------------------
(* Properties of the single history, continued.                            *)

\* The exception that line 276 names for a role without a template.
MissingRoleTemplateError == "RuntimeError"

\* The segments of entry i in walk order, as << i, key >>.
RECURSIVE SegmentsFrom(_, _, _)
SegmentsFrom(ents, i, j) ==
    IF i > Len(ents) THEN << >>
    ELSE IF j > Len(ents[i].keys) THEN SegmentsFrom(ents, i + 1, 1)
    ELSE (IF IsSegment(ents, i, ents[i].keys[j])
          THEN << << i, ents[i].keys[j] >> >> ELSE << >>)
         \o SegmentsFrom(ents, i, j + 1)

\* All segments of the history in walk order: entry order, then key order.
Segments(ents) == SegmentsFrom(ents, 1, 1)

\* The segments whose role has no template and cannot take `first`.
Untemplated(ents, tpl) ==
    { n \in 1..Len(Segments(ents)) :
        LET role == ents[Segments(ents)[n][1]].role
        IN  /\ role \notin DOMAIN tpl
            /\ ~(role = "user" /\ "first" \in DOMAIN tpl) }

\* C13 (as claimed): an embed_chat call, in either mode, on a history with a
\* segment whose role has no template raises MissingRoleTemplateError,
\* returns no tensor, has processed exactly the segments before the first
\* such segment, and has computed nothing for that segment.
C13_MissingRoleTemplate ==
    (result.op = "embed_chat" /\ Untemplated(entries, template) # {}) =>
        LET n == CHOOSE n \in Untemplated(entries, template) :
                    \A m \in Untemplated(entries, template) : n <= m
            seg == Segments(entries)[n]
        IN  /\ ~result.ok
            /\ result.tensor = << >>
            /\ Len(result.walk) = n - 1
            /\ \A w \in 1..Len(result.walk) :
                  << result.walk[w].e, result.walk[w].key >> # seg
            /\ seg[2] \notin DOMAIN entries[seg[1]].cache
            /\ result.error = MissingRoleTemplateError

----------------------------------------------------------------------------
(* embed_dict alone: a call with a dict and a template.                    *)

\* Most items of a dict passed to embed_dict.
MaxDictLen == 3

\* The items a dict is made of: text and image (null or not), a nested
\* dict (null, empty, or holding one text), and a key without a registered
\* embedding function.
DictItems ==
    { [key |-> "text",  value |-> None],
      [key |-> "text",  value |-> Some(<< "hello" >>)],
      [key |-> "image", value |-> None],
      [key |-> "image", value |-> Some(<< "cat.jpg" >>)],
      [key |-> "audio", value |-> Some(<< "beep.wav" >>)],
      [key |-> "dict",  value |-> None],
      [key |-> "dict",  value |-> Some(<< >>)],
      [key |-> "dict",  value |-> Some(<< [key |-> "text", value |-> Some(<< "hi" >>)] >>)] }

\* A dict holds a key once.
Dicts ==
    { d \in UNION { [1..n -> DictItems] : n \in 0..MaxDictLen } :
        \A n, m \in 1..Len(d) : d[n].key = d[m].key => n = m }

\* template=None, or a role's template.
DictTemplates == { << >>, ChatTemplates["vicuna-v1"]["user"] }

\* self.embedding_functions when embed_dict is called: as constructed, or
\* after one of the caller's registrations.
DictFunctions ==
    { DefaultEmbeddingFunctions }
    \cup { register_embedding(DefaultEmbeddingFunctions, reg.type, reg.func) :
              reg \in Registrations }

InitDict ==
    /\ call \in { [dict |-> d, template |-> t, done |-> FALSE, out |-> Raised("")] :
                    d \in Dicts, t \in DictTemplates }
    /\ embedding_functions \in DictFunctions
    /\ objects = Unused /\ histories = Unused /\ threads = Unused
    /\ template = Unused /\ entries = << >> /\ kv_cache = None
    /\ result = NoResult("init") /\ session = NewSession /\ book = << >>

\* history.embed_dict(dict, template)
EmbedDict ==
    /\ ~call.done
    /\ call' = [call EXCEPT !.done = TRUE,
                            !.out = embed_dict(call.dict, call.template)]
    /\ UNCHANGED << history, embedding_functions, objects, histories, threads >>

NextDict == EmbedDict

SpecDict == InitDict /\ [][NextDict]_vars

\* The places of a dict whose value is not null and whose key has a
\* registered embedding function.
ValidItems(d) ==
    { n \in 1..Len(d) : d[n].value # None /\ d[n].key \in DOMAIN embedding_functions }

\* What one valid item contributes, computed with the template t (a nested
\* dict here is empty or holds one text).
ItemEmbedding(kv, t) ==
    IF kv.key # "dict" THEN Embedded(Dispatched(kv.key, kv.value[1], t))
    ELSE IF kv.value[1] = << >> THEN Raised("ValueError")
    ELSE Embedded(Dispatched("text", kv.value[1][1].value[1], t))

\* C14: embed_dict raises ValueError when no value is valid; when every
\* valid value embeds, it returns their embeddings, each computed with the
\* call's template, concatenated in the dict's order (the single embedding
\* when there is one, and nothing of a null value or of a key without an
\* embedding function); and it raises when a valid value fails to embed.
C14_DictEmbedding ==
    call.done =>
        LET d == call.dict
            t == call.template
            failing == { n \in ValidItems(d) : ItemEmbedding(d[n], t).error # "" }
        IN  /\ ValidItems(d) = {} =>
                  call.out = Raised("ValueError")
            /\ (ValidItems(d) # {} /\ failing = {}) =>
                  /\ call.out.error = ""
                  /\ call.out.tensor =
                        Flatten([n \in 1..Len(d) |->
                                    IF n \in ValidItems(d)
                                    THEN ItemEmbedding(d[n], t).tensor ELSE << >>])
            /\ (\E n \in ValidItems(d) : ValidItems(d) = {n} /\ failing = {}) =>
                  \E n \in ValidItems(d) :
                      call.out = ItemEmbedding(d[n], t)
            /\ failing # {} => call.out.error # ""

\* C14 witness: a call with a template on a dict holding an image, then a
\* text, a null value and a key without an embedding function, which
\* returned the image's embedding followed by the text's.
C14_Witness ==
    /\ call.done /\ call.out.error = "" /\ call.template # << >>
    /\ Cardinality(ValidItems(call.dict)) = 2
    /\ \E n, m \in ValidItems(call.dict) :
          /\ n < m
          /\ call.dict[n].key = "image" /\ call.dict[m].key = "text"
          /\ call.out.tensor =
                embed_image(call.dict[n].value[1], call.template)
                \o embed_text(call.dict[m].value[1], call.template)
    /\ \E n \in 1..Len(call.dict) : call.dict[n].key = "audio"

\* Item n of a pass's walk met the pass still cacheable: the call was
\* embed_chat(True) and no earlier segment was returned.
Cacheable(r, n) ==
    r.use_cache /\ \A m \in 1..(n - 1) : ~r.walk[m].emitted

\* Item n was a cache hit: cached already, the pass still cacheable.
IsHit(r, n) == Cacheable(r, n) /\ ~r.walk[n].fresh

\* Item n was the bot's, embedded by this pass while still cacheable.
IsFreshBot(r, n) ==
    Cacheable(r, n) /\ r.walk[n].fresh /\ r.walk[n].role = "bot"

\* The stored lengths of the walk items 1..n that are in S, added up.
RECURSIVE StoredLength(_, _, _, _)
StoredLength(r, ents, S, n) ==
    IF n = 0 THEN 0
    ELSE StoredLength(r, ents, S, n - 1)
         + (IF n \in S THEN Len(ents[r.walk[n].e].cache[r.walk[n].key]) ELSE 0)

\* C15 (as claimed): in a successful embed_chat(True) a cache hit is not
\* returned, and the position is the stored length of the hits that are not
\* the bot's (and of the bot segments the pass embedded itself): a bot
\* segment that is a cache hit adds nothing.
C15_BotHitNotCounted ==
    (Called(TRUE) /\ result.ok) =>
        LET W == 1..Len(result.walk) IN
        /\ \A n \in W : IsHit(result, n) => ~result.walk[n].emitted
        /\ result.computed =
              StoredLength(result, entries,
                  { n \in W : \/ IsHit(result, n) /\ result.walk[n].role # "bot"
                              \/ IsFreshBot(result, n) },
                  Len(result.walk))

\* C15 (amended): in an embed_chat(True) pass a cache hit is not returned,
\* and the position is the stored length of all the hits, the bot's
\* included (and of the bot segments the pass embedded itself).
C15_EveryHitCounted ==
    Called(TRUE) =>
        LET W == 1..Len(result.walk) IN
        /\ \A n \in W : IsHit(result, n) => ~result.walk[n].emitted
        /\ result.computed =
              StoredLength(result, entries,
                  { n \in W : IsHit(result, n) \/ IsFreshBot(result, n) },
                  Len(result.walk))

\* C15 witness: a successful embed_chat(True) with a bot segment and a
\* system segment as cache hits, a user segment returned, and a position
\* that counts both hits.
C15_Witness ==
    /\ Called(TRUE) /\ result.ok
    /\ \E n, m, u \in 1..Len(result.walk) :
          /\ IsHit(result, n) /\ result.walk[n].role = "bot"
          /\ IsHit(result, m) /\ result.walk[m].role = "system"
          /\ result.walk[u].emitted /\ result.walk[u].role = "user"
          /\ result.position =
                Len(entries[result.walk[n].e].cache[result.walk[n].key])
                + Len(entries[result.walk[m].e].cache[result.walk[m].key])

\* Item n set open_user_prompt: an image the pass embedded itself and
\* returned (lines 289-294 and 301-303).
SetsOpenUserPrompt(r, n) ==
    r.walk[n].fresh /\ r.walk[n].emitted /\ r.walk[n].key = "image"

\* The template the pass picked for item n, and the one it applied.
ChosenTemplate(r, tpl, n) == tpl[r.walk[n].tmpl]

AppliedTemplate(r, tpl, n) ==
    IF r.walk[n].truncated
    THEN SliceFrom(ChosenTemplate(r, tpl, n), Find(ChosenTemplate(r, tpl, n), MESSAGE))
    ELSE ChosenTemplate(r, tpl, n)

\* C16 (as claimed): in every pass, with or without a `first` template, the
\* segment processed right after a freshly embedded image gets its template
\* from the placeholder on, and no other segment gets a truncated template.
C16_OpenPromptOnlyNext ==
    result.op = "embed_chat" =>
        \A n \in 1..Len(result.walk) :
            IF n > 1 /\ SetsOpenUserPrompt(result, n - 1)
            THEN AppliedTemplate(result, template, n) =
                    SliceFrom(ChosenTemplate(result, template, n),
                              Find(ChosenTemplate(result, template, n), MESSAGE))
            ELSE ~result.walk[n].truncated

\* Segment n of the history (in walk order) is a text of a user entry.
IsUserTextAt(ents, n) ==
    ents[Segments(ents)[n][1]].role = "user" /\ Segments(ents)[n][2] = "text"

\* Item n of a pass's walk is segment n of the history.
WalksInOrder(r, ents) ==
    /\ Len(r.walk) <= Len(Segments(ents))
    /\ \A n \in 1..Len(r.walk) :
          << r.walk[n].e, r.walk[n].key >> = Segments(ents)[n]

\* C17 (as claimed): a pass picks `first` for a segment exactly when the
\* template set has `first` and the segment is the text of the first user
\* entry of the history; every other segment, an image of a user entry
\* ahead of the first user text included, gets its role's template.
C17_FirstOnlyForFirstUserText ==
    result.op = "embed_chat" =>
        /\ WalksInOrder(result, entries)
        /\ \A n \in 1..Len(result.walk) :
              LET e == result.walk[n].e IN
              /\ result.walk[n].tmpl = "first" <=>
                    /\ "first" \in DOMAIN template
                    /\ entries[e].role = "user" /\ result.walk[n].key = "text"
                    /\ \A i \in 1..(e - 1) : entries[i].role # "user"
              /\ result.walk[n].tmpl # "first" =>
                    result.walk[n].tmpl = entries[e].role

\* C17 (amended): a pass picks `first` for a segment exactly when the
\* template set has `first`, the segment is of a user entry, and no text
\* of a user entry comes before it in walk order (so for each segment of the
\* user entries up to and including the earliest user text, images
\* included); every other segment gets its role's template.
C17_FirstUntilFirstUserText ==
    result.op = "embed_chat" =>
        /\ WalksInOrder(result, entries)
        /\ \A n \in 1..Len(result.walk) :
              LET e == result.walk[n].e IN
              /\ result.walk[n].tmpl = "first" <=>
                    /\ "first" \in DOMAIN template
                    /\ entries[e].role = "user"
                    /\ \A m \in 1..(n - 1) : ~IsUserTextAt(entries, m)
              /\ result.walk[n].tmpl # "first" =>
                    result.walk[n].tmpl = entries[e].role

\* C17 witness: a pass that picked `first` for the image and then for the
\* text of the first user entry, and `user` for the text of the next.
C17_Witness ==
    /\ result.op = "embed_chat" /\ result.ok
    /\ \E n, m, u \in 1..Len(result.walk) :
          /\ n < m /\ m < u
          /\ result.walk[n].key = "image" /\ result.walk[n].tmpl = "first"
          /\ result.walk[m].key = "text" /\ result.walk[m].tmpl = "first"
          /\ result.walk[m].e = result.walk[n].e
          /\ result.walk[u].role = "user" /\ result.walk[u].tmpl = "user"

\* C18: an embed_chat call, in either mode and whether it succeeds or
\* raises, leaves the number of entries, their order, and each entry's role
\* and raw content as they were, and only adds cached embeddings; a step
\* that changes the entries in any other way is an add_entry, which appends
\* one entry after the others, or a reset or the system_prompt setter.
C18_EntrySequenceKept ==
    [][ /\ result'.op = "embed_chat" =>
              /\ Uncached(entries') = Uncached(entries)
              /\ \A i \in 1..Len(entries) :
                    DOMAIN entries[i].cache \subseteq DOMAIN entries'[i].cache
        /\ Uncached(entries') # Uncached(entries) =>
              \/ /\ result'.op = "add_entry"
                 /\ Len(entries') = Len(entries) + 1
                 /\ SubSeq(entries', 1, Len(entries)) = entries
              \/ Resetting(result'.op)
      ]_vars

\* C18 witness: an embed_chat call that raised at the third entry, left
\* three entries in the order they were added, and embedded the first two.
C18_Witness ==
    /\ result.op = "embed_chat" /\ ~result.ok
    /\ Len(entries) = 3
    /\ entries[1].role = "system" /\ entries[2].role = "user"
    /\ entries[3].role = "tool"
    /\ Len(result.walk) = 2
    /\ \A n \in 1..2 : result.walk[n].fresh
    /\ "text" \in DOMAIN entries[2].cache

\* C19: a successful embed_chat call has processed every segment of the
\* history in walk order; the segments it returned are a suffix of them,
\* not empty; the position is the stored length of the segments before
\* that suffix; and the position plus the length of the returned tensor is
\* the stored length of all segments.
C19_ContiguousSuffix ==
    (result.op = "embed_chat" /\ result.ok) =>
        LET W == 1..Len(result.walk) IN
        /\ WalksInOrder(result, entries)
        /\ Len(result.walk) = Len(Segments(entries))
        /\ \E k \in W :
              /\ \A n \in W : result.walk[n].emitted <=> n >= k
              /\ result.position =
                    StoredLength(result, entries, 1..(k - 1), Len(result.walk))
              /\ Len(result.tensor) =
                    StoredLength(result, entries, k..Len(result.walk), Len(result.walk))
        /\ result.position + Len(result.tensor) = Len(HistoryTensor(entries))

\* C19 witness: a successful embed_chat(True) that counted the system
\* segment in the position and returned a user segment and, after it, the
\* bot segment it embedded.
C19_Witness ==
    /\ Called(TRUE) /\ result.ok
    /\ Len(result.walk) = 3
    /\ result.walk[1].role = "system" /\ result.walk[1].counted
    /\ result.walk[2].role = "user" /\ result.walk[2].emitted
    /\ result.walk[3].role = "bot" /\ result.walk[3].emitted
    /\ result.position = Len(entries[1].cache["text"])
    /\ result.position > 0
    /\ result.position + Len(result.tensor) = Len(HistoryTensor(entries))

----------------------------------------------------------------------------
(* Two embed_chat(True) calls on one history from two threads.  A thread   *)
(* can be switched out between the test `embed_key not in entry` of line   *)
(* 288 or 300 and the statement after it, which calls self.embed and       *)
(* stores the result on the entry, and again before the statements that    *)
(* read entry[embed_key] back; the calls interleave at these steps.        *)

ThreadIds == {1, 2}

\* What the history holds when the calls start: the entries added with these.
ThreadInputs ==
    { in \in AddInputs :
        in.role # "tool" /\ in.input \notin {None, Some(<< "cat.jpg" >>)} }

SharedHistories(tpl) ==
    { ResetEntries(tpl, TRUE)
        \o [n \in DOMAIN ins |->
              create_entry(ins[n].role, ins[n].input, ins[n].kwargs)] :
      ins \in UNION { [1..m -> ThreadInputs] : m \in 0..MaxAdded } }

\* The locals of a call as lines 261-265 set them.
NewLocals ==
    [entries |-> << >>, embeddings |-> << >>, position |-> 0,
     num_user_prompts |-> 0, open_user_prompt |-> FALSE,
     use_cache |-> TRUE, error |-> "", walk |-> << >>]

\* pc: idle (not called yet), test (about to run a segment's body up to the
\* test of line 288 or 300), store (the test found no embedding; about to
\* embed and store), read (about to read the entry's embedding and run the
\* rest of the body), done.  cached is what the test found.  overlapped is
\* bookkeeping: the other call was running while this one was.
IdleThread ==
    [pc |-> "idle", i |-> 1, j |-> 1, cached |-> FALSE, st |-> NewLocals,
     overlapped |-> FALSE,
     ok |-> FALSE, error |-> "", tensor |-> << >>, position |-> -1]

\* Per entry: how many calls returned each segment and how often each
\* segment's embedding was written.
NewCounts(entry) ==
    [ret |-> [k \in DOMAIN entry.val |-> 0], writes |-> [k \in DOMAIN entry.val |-> 0]]

InitThreads ==
    /\ \E name \in TemplateNames : template = ChatTemplates[name]
    /\ entries \in SharedHistories(template)
    /\ threads = [t \in ThreadIds |-> IdleThread]
    /\ book = [i \in 1..Len(entries) |-> NewCounts(entries[i])]
    /\ kv_cache = None /\ result = NoResult("init") /\ session = NewSession
    /\ embedding_functions = DefaultEmbeddingFunctions
    /\ objects = Unused /\ histories = Unused /\ call = Unused

Running(th) == th.pc \in {"test", "store", "read"}

\* The next key at or after (i, j) that the loops do not skip (line 269),
\* as << i, j >>; i is past the entries when there is none.
RECURSIVE Cursor(_, _, _)
Cursor(ents, i, j) ==
    IF i > Len(ents) THEN << i, 1 >>
    ELSE IF j > Len(ents[i].keys) THEN Cursor(ents, i + 1, 1)
    ELSE IF ~IsSegment(ents, i, ents[i].keys[j]) THEN Cursor(ents, i, j + 1)
    ELSE << i, j >>

\* Thread t calls embed_chat(True).
Start(t) ==
    /\ threads[t].pc = "idle"
    /\ threads' = [u \in ThreadIds |->
          IF u = t
          THEN [threads[t] EXCEPT !.pc = "test",
                  !.overlapped = \E v \in ThreadIds \ {t} : Running(threads[v])]
          ELSE [threads[u] EXCEPT !.overlapped = @ \/ Running(threads[u])]]
    /\ UNCHANGED << history, embedding_functions, objects, histories, call >>

\* The call of thread t ends, returning or raising.
Ended(th, st) ==
    LET error == IF st.error # "" THEN st.error
                 ELSE IF st.embeddings = << >> THEN "ValueError" ELSE ""
    IN  [th EXCEPT !.pc = "done", !.st = [st EXCEPT !.entries = << >>],
                   !.ok = error = "", !.error = error,
                   !.tensor = IF error = "" THEN Flatten(st.embeddings) ELSE << >>,
                   !.position = IF error = "" THEN st.position ELSE -1]

\* Thread t runs a segment's body up to the test of line 288 or 300; a
\* role without a template ends the call there.
Test(t) ==
    LET th  == threads[t]
        c   == Cursor(entries, th.i, th.j)
        i   == c[1]
        key == entries[i].keys[c[2]]
        st  == [th.st EXCEPT !.entries = entries]
    IN  /\ th.pc = "test"
        /\ c[1] <= Len(entries)
        /\ threads' = [threads EXCEPT ![t] =
              IF LacksRoleTemplate(template, entries[i].role, st.num_user_prompts)
              THEN Ended(th, ProcessSegment(st, template, i, key, TRUE))
              ELSE [th EXCEPT !.pc = IF IsCached(entries[i], key)
                                     THEN "read" ELSE "store",
                              !.cached = IsCached(entries[i], key),
                              !.i = i, !.j = c[2]]]
        /\ UNCHANGED << history, embedding_functions, objects, histories, call >>

\* Thread t, having found no embedding, embeds the segment and stores the
\* embedding on the entry (line 289 or 301); an exception of self.embed ends
\* the call with nothing stored.
Store(t) ==
    LET th  == threads[t]
        i   == th.i
        key == entries[i].keys[th.j]
        st  == [th.st EXCEPT !.entries = entries]
        s1  == StoreSegment(st, template, i, key)
    IN  /\ th.pc = "store"
        /\ entries' = s1.entries
        /\ book' = IF s1.error # "" THEN book
                   ELSE [book EXCEPT ![i].writes[key] = @ + 1]
        /\ threads' = [threads EXCEPT ![t] =
              IF s1.error # "" THEN Ended(th, s1)
              ELSE [th EXCEPT !.pc = "read"]]
        /\ UNCHANGED << template, kv_cache, result, session,
                        embedding_functions, objects, histories, call >>

\* Thread t reads the embedding that the entry holds now and runs the body
\* to its end (lines 290-296, 298 or 302-304, and 306-307).
Read(t) ==
    LET th  == threads[t]
        i   == th.i
        key == entries[i].keys[th.j]
        st  == [th.st EXCEPT !.entries = entries]
        s1  == FinishSegment(st, template, i, key, th.cached)
    IN  /\ th.pc = "read"
        /\ threads' = [threads EXCEPT ![t] =
              [th EXCEPT !.pc = "test", !.j = th.j + 1,
                         !.st = [s1 EXCEPT !.entries = << >>]]]
        /\ UNCHANGED << history, embedding_functions, objects, histories, call >>

\* Thread t is past the last entry: line 309.
Return(t) ==
    LET th == threads[t]
        c  == Cursor(entries, th.i, th.j)
        e  == Ended(th, th.st)
    IN  /\ th.pc = "test"
        /\ c[1] > Len(entries)
        /\ threads' = [threads EXCEPT ![t] = e]
        /\ book' = [i \in 1..Len(entries) |->
              [book[i] EXCEPT !.ret = [k \in DOMAIN book[i].ret |->
                  IF e.ok /\ \E n \in 1..Len(th.st.walk) :
                                /\ th.st.walk[n].e = i /\ th.st.walk[n].key = k
                                /\ th.st.walk[n].emitted
                  THEN book[i].ret[k] + 1 ELSE book[i].ret[k]]]]
        /\ UNCHANGED << template, entries, kv_cache, result, session,
                        embedding_functions, objects, histories, call >>

NextThreads ==
    \/ \E t \in ThreadIds : Start(t)
    \/ \E t \in ThreadIds : Test(t)
    \/ \E t \in ThreadIds : Store(t)
    \/ \E t \in ThreadIds : Read(t)
    \/ \E t \in ThreadIds : Return(t)

SpecThreads == InitThreads /\ [][NextThreads]_vars

\* The two calls ran one after the other.
Serialized == \A t \in ThreadIds : ~threads[t].overlapped

\* C20: when the two calls run one after the other, no embedding is written
\* twice and no segment other than the bot's is returned by both; that is,
\* a segment written twice, or returned by both calls, means the calls
\* overlapped.
C20_ExactlyOnceNeedsSerialization ==
    Serialized =>
        \A i \in 1..Len(entries) : \A k \in DOMAIN entries[i].val :
            IsSegment(entries, i, k) =>
                /\ book[i].writes[k] <= 1
                /\ entries[i].role # "bot" => book[i].ret[k] <= 1

\* C20 witness: both calls returned, and a user segment was embedded by
\* both (its embedding written twice) and is in both returned tensors.
C20_Witness ==
    /\ \A t \in ThreadIds : threads[t].pc = "done" /\ threads[t].ok
    /\ \E i \in 1..Len(entries) : \E k \in DOMAIN entries[i].val :
          /\ IsSegment(entries, i, k) /\ entries[i].role = "user"
          /\ book[i].writes[k] = 2
          /\ book[i].ret[k] = 2
          /\ \A t \in ThreadIds : \E n \in 1..Len(threads[t].st.walk) :
                /\ threads[t].st.walk[n].e = i /\ threads[t].st.walk[n].key = k
                /\ threads[t].st.walk[n].fresh /\ threads[t].st.walk[n].emitted

====
